---- MODULE Spec2Model ----
(***************************************************************************)
(* Workflow Engine (services/workflow-engine): workflow definitions,       *)
(* on-demand executions, the background task that walks the steps of a     *)
(* workflow, and the per-step invoker with its retry loop.                 *)
(*                                                                         *)
(* The three tables (workflows, workflow_executions,                       *)
(* workflow_step_results) are sequences whose index is the SERIAL id.      *)
(* Spec follows one workflow definition and one execution of it, from the  *)
(* requests that create them to the end of the background task.            *)
(* Every SQL statement and every remote call of a background task is one   *)
(* action, so tasks interleave at the await points of the code.            *)
(* The columns name, description, schedule, trigger, started_at and the    *)
(* step fields method, payload, timeout are carried by no branch of the    *)
(* code and are left out; the timeout shows as the ReadTimeout outcome.    *)
(***************************************************************************)
EXTENDS Integers, Sequences, FiniteSets, TLC

VARIABLES
    workflows,        \* table workflows: id -> [steps, enabled]
    executions,       \* table workflow_executions: id -> row
    step_results,     \* table workflow_step_results: id -> row
    task,             \* background task of each execution: its locals and position
    remote_calls,     \* remote_calls[e][i]: HTTP calls issued by execution e for its i-th step
    sleeps,           \* sleeps[e][i]: the seconds of each asyncio.sleep of e in its i-th step
    response          \* the last HTTP response of the API, with the workflow id asked for

vars == <<workflows, executions, step_results, task, remote_calls, sleeps, response>>

----------------------------------------------------------------------------
(* Bounds *)

MaxSteps == 2
MaxRetry == 2
MaxConcurrent == 2

----------------------------------------------------------------------------
(* validation.py *)

ALLOWED_SERVICES ==
    { "user-management", "rca-api", "investigation-api", "vector-search",
      "audit-service", "notification-service", "ml-training",
      "agent-orchestrator", "query-optimizer", "data-aggregator",
      "alert-manager", "cache-service" }

ALLOWED_PORTS == 8000..8015

NoPort == << >>

\* The largest port urlparse accepts: reading parsed.port of a larger one
\* raises ValueError.
MaxPort == 65535

\* A URL as urlparse splits it: scheme, hostname and port (NoPort when the
\* URL states none).  An exception inside the try gives False.
validate_service_url(url) ==
    IF url.scheme \notin {"http", "https"} THEN FALSE
    ELSE IF url.port # NoPort /\ url.port[1] \notin 0..MaxPort THEN FALSE
    ELSE LET hostname == url.hostname
             port == IF url.port = NoPort \/ url.port = <<0>> THEN 8000 ELSE url.port[1]
         IN  IF hostname \notin ALLOWED_SERVICES THEN FALSE
             ELSE IF port \notin ALLOWED_PORTS THEN FALSE
             ELSE TRUE

----------------------------------------------------------------------------
(* Inputs *)

StepIds == {"A", "B"}

\* The target of each step id: one collaborator on the allow-list, one host
\* that is not.
ServiceUrlOf ==
    [id \in StepIds |->
        IF id = "A"
        THEN [scheme |-> "http", hostname |-> "rca-api", port |-> <<8001>>]
        ELSE [scheme |-> "http", hostname |-> "evil.example", port |-> <<80>>]]

DependsOn == { << >>, <<"A">>, <<"A", "B">> }

\* class WorkflowStep
WorkflowStep ==
    { [step_id |-> x[1], service_url |-> ServiceUrlOf[x[1]],
       retry_count |-> x[2], depends_on |-> x[3]] :
      x \in StepIds \X (0..MaxRetry) \X DependsOn }

\* class Workflow
Workflow ==
    [steps : UNION { [1..n -> WorkflowStep] : n \in 0..MaxSteps },
     enabled : BOOLEAN]

\* What a remote answers: a status code with a body that is JSON or not, or
\* the exception httpx raises (transport error, timeout of this attempt).
Responses ==
    [kind : {"response"}, status_code : {200, 302, 404, 500}, body : {"json", "text"}]
    \cup [kind : {"exception"}, exc : {"ConnectError", "ReadTimeout"}]

\* The workflow ids a caller asks for: in Spec the registry holds one
\* definition (id 1) and no definition has id 2.
WorkflowIds == {1, 2}

NULL == "NULL"
NOW == "NOW"
NoError == << >>
NoTotal == << >>
NoResponse == [kind |-> "none"]

----------------------------------------------------------------------------
(* Task locals *)

\* Variant: dict.get(key, True)
DictGet_DefaultTrue(d, key) == IF key \in DOMAIN d THEN d[key] ELSE TRUE

\* dict.get(key, False)
DictGet(d, key) == IF key \in DOMAIN d THEN d[key] ELSE FALSE

\* d[key] = value
DictSet(d, key, value) ==
    [k \in (DOMAIN d) \cup {key} |-> IF k = key THEN value ELSE d[k]]

EmptyDict == [k \in {} |-> FALSE]

NoTask ==
    [pc |-> "done", steps |-> << >>, idx |-> 0, step_results |-> EmptyDict,
     completed |-> 0, attempt |-> 0, step_result_id |-> 0, response |-> NoResponse,
     store_errors |-> 0, success_seen |-> FALSE]

Init ==
    /\ workflows = << >>
    /\ executions = << >>
    /\ step_results = << >>
    /\ task = << >>
    /\ remote_calls = << >>
    /\ sleeps = << >>
    /\ response = [op |-> "none", workflow_id |-> 0, status |-> 0, id |-> 0]

----------------------------------------------------------------------------
(* API handlers *)

\* POST /workflows
create_workflow(workflow) ==
    /\ workflows' = Append(workflows, workflow)
    /\ response' = [op |-> "create_workflow", workflow_id |-> Len(workflows) + 1,
                    status |-> 200, id |-> Len(workflows) + 1]
    /\ UNCHANGED <<executions, step_results, task, remote_calls, sleeps>>

\* Variant: the enabled flag is not looked at
execute_workflow_NoEnabledCheck(workflow_id) ==
    /\ IF workflow_id \notin DOMAIN workflows
       THEN /\ response' = [op |-> "execute_workflow", workflow_id |-> workflow_id,
                            status |-> 404, id |-> 0]
            /\ UNCHANGED <<executions, task, remote_calls, sleeps>>
       ELSE /\ executions' = Append(executions,
                   [workflow_id |-> workflow_id, status |-> "running",
                    current_step |-> NULL, steps_completed |-> 0,
                    total_steps |-> NoTotal, error |-> NoError,
                    completed_at |-> NULL])
            /\ task' = Append(task, [NoTask EXCEPT !.pc = "load"])
            /\ remote_calls' = Append(remote_calls, << >>)
            /\ sleeps' = Append(sleeps, << >>)
            /\ response' = [op |-> "execute_workflow", workflow_id |-> workflow_id,
                            status |-> 200, id |-> Len(executions) + 1]
    /\ UNCHANGED <<workflows, step_results>>

\* POST /workflows/{workflow_id}/execute
execute_workflow(workflow_id) ==
    /\ IF workflow_id \notin DOMAIN workflows
       THEN /\ response' = [op |-> "execute_workflow", workflow_id |-> workflow_id,
                            status |-> 404, id |-> 0]
            /\ UNCHANGED <<executions, task, remote_calls, sleeps>>
       ELSE IF ~workflows[workflow_id].enabled
       THEN /\ response' = [op |-> "execute_workflow", workflow_id |-> workflow_id,
                            status |-> 400, id |-> 0]
            /\ UNCHANGED <<executions, task, remote_calls, sleeps>>
       ELSE /\ executions' = Append(executions,
                   [workflow_id |-> workflow_id, status |-> "running",
                    current_step |-> NULL, steps_completed |-> 0,
                    total_steps |-> NoTotal, error |-> NoError,
                    completed_at |-> NULL])
            /\ task' = Append(task, [NoTask EXCEPT !.pc = "load"])
            /\ remote_calls' = Append(remote_calls, << >>)
            /\ sleeps' = Append(sleeps, << >>)
            /\ response' = [op |-> "execute_workflow", workflow_id |-> workflow_id,
                            status |-> 200, id |-> Len(executions) + 1]
    /\ UNCHANGED <<workflows, step_results>>

----------------------------------------------------------------------------
(* execute_workflow_background: one action per statement it awaits *)

Step(e) == task[e].steps[task[e].idx]

\* The head of "for step in steps": the position of the task when the loop
\* is entered for the step at index i.
LoopHead(steps, i) == IF i > Len(steps) THEN "finish" ELSE "check"

\* Variant: only the first dependency listed is checked
UnmetDeps_OnlyFirst(depends_on, results) ==
    { j \in DOMAIN depends_on : j = 1 /\ ~DictGet(results, depends_on[j]) }

\* The dependencies of the step that are not recorded as succeeded, and the
\* first of them in depends_on order (the one the loop over depends_on hits).
UnmetDeps(depends_on, results) ==
    { j \in DOMAIN depends_on : ~DictGet(results, depends_on[j]) }

\* Variant: the error names the first dependency listed
FirstUnmet_FirstListed(depends_on, results) == depends_on[1]

FirstUnmet(depends_on, results) ==
    LET unmet == UnmetDeps(depends_on, results)
    IN  depends_on[CHOOSE j \in unmet : \A k \in unmet : j <= k]

SetTask(e, t) == task' = [task EXCEPT ![e] = t]

SetExecution(e, row) == executions' = [executions EXCEPT ![e] = row]

\* SELECT name, steps FROM workflows; UPDATE ... SET total_steps
LoadWorkflow(e) ==
    /\ task[e].pc = "load"
    /\ LET workflow_id == executions[e].workflow_id
       IN  IF workflow_id \notin DOMAIN workflows
           THEN /\ SetTask(e, [task[e] EXCEPT !.pc = "done"])
                /\ UNCHANGED <<executions, remote_calls, sleeps>>
           ELSE LET steps == workflows[workflow_id].steps
                IN  /\ SetExecution(e, [executions[e] EXCEPT !.total_steps = <<Len(steps)>>])
                    /\ SetTask(e, [task[e] EXCEPT !.steps = steps, !.idx = 1,
                                       !.step_results = EmptyDict, !.completed = 0,
                                       !.pc = LoopHead(steps, 1)])
                    /\ remote_calls' = [remote_calls EXCEPT ![e] = [i \in DOMAIN steps |-> 0]]
                    /\ sleeps' = [sleeps EXCEPT ![e] = [i \in DOMAIN steps |-> << >>]]
    /\ UNCHANGED <<workflows, step_results, response>>

\* Variant: the "return" after the UPDATE is missing, the step is run
DependencyFailed_NoReturn(e) ==
    /\ task[e].pc = "check"
    /\ UnmetDeps(Step(e).depends_on, task[e].step_results) # {}
    /\ LET dep == FirstUnmet(Step(e).depends_on, task[e].step_results)
       IN  SetExecution(e, [executions[e] EXCEPT
                               !.status = "failed",
                               !.error = <<"Dependency", dep, "failed">>,
                               !.completed_at = NOW,
                               !.current_step = Step(e).step_id])
    /\ SetTask(e, [task[e] EXCEPT !.pc = "insert"])
    /\ UNCHANGED <<workflows, step_results, remote_calls, sleeps, response>>

\* Variant: the abort names the skipped step in current_step
DependencyFailed_SetsCurrentStep(e) ==
    /\ task[e].pc = "check"
    /\ UnmetDeps(Step(e).depends_on, task[e].step_results) # {}
    /\ LET dep == FirstUnmet(Step(e).depends_on, task[e].step_results)
       IN  SetExecution(e, [executions[e] EXCEPT
                               !.status = "failed",
                               !.current_step = Step(e).step_id,
                               !.error = <<"Dependency", dep, "failed">>,
                               !.completed_at = NOW])
    /\ SetTask(e, [task[e] EXCEPT !.pc = "done"])
    /\ UNCHANGED <<workflows, step_results, remote_calls, sleeps, response>>

\* Variant: the abort also resets the StepResults of the execution
DependencyFailed_ResetsResults(e) ==
    /\ task[e].pc = "check"
    /\ UnmetDeps(Step(e).depends_on, task[e].step_results) # {}
    /\ LET dep == FirstUnmet(Step(e).depends_on, task[e].step_results)
       IN  SetExecution(e, [executions[e] EXCEPT
                               !.status = "failed",
                               !.error = <<"Dependency", dep, "failed">>,
                               !.completed_at = NOW])
    /\ step_results' =
          [r \in DOMAIN step_results |->
              IF step_results[r].execution_id = e
              THEN [step_results[r] EXCEPT !.status = "failed", !.result = NULL]
              ELSE step_results[r]]
    /\ SetTask(e, [task[e] EXCEPT !.pc = "done"])
    /\ UNCHANGED <<workflows, remote_calls, sleeps, response>>

\* A dependency is not recorded as succeeded: the execution is failed and
\* the task returns.
DependencyFailed(e) ==
    /\ task[e].pc = "check"
    /\ UnmetDeps(Step(e).depends_on, task[e].step_results) # {}
    /\ LET dep == FirstUnmet(Step(e).depends_on, task[e].step_results)
       IN  SetExecution(e, [executions[e] EXCEPT
                               !.status = "failed",
                               !.error = <<"Dependency", dep, "failed">>,
                               !.completed_at = NOW])
    /\ SetTask(e, [task[e] EXCEPT !.pc = "done"])
    /\ UNCHANGED <<workflows, step_results, remote_calls, sleeps, response>>

\* Variant: the step is invoked without the UPDATE of current_step
SetCurrentStep_NoUpdate(e) ==
    /\ task[e].pc = "check"
    /\ UnmetDeps(Step(e).depends_on, task[e].step_results) = {}
    /\ SetTask(e, [task[e] EXCEPT !.pc = "insert"])
    /\ UNCHANGED <<workflows, executions, step_results, remote_calls, sleeps, response>>

\* UPDATE ... SET current_step
SetCurrentStep(e) ==
    /\ task[e].pc = "check"
    /\ UnmetDeps(Step(e).depends_on, task[e].step_results) = {}
    /\ SetExecution(e, [executions[e] EXCEPT !.current_step = Step(e).step_id])
    /\ SetTask(e, [task[e] EXCEPT !.pc = "insert"])
    /\ UNCHANGED <<workflows, step_results, remote_calls, sleeps, response>>

\* Variant: the failed step is counted in steps_completed
AbortExecution_CountsFailedStep(e) ==
    /\ task[e].pc = "abort"
    /\ SetExecution(e, [executions[e] EXCEPT
                            !.status = "failed",
                            !.steps_completed = task[e].completed + 1,
                            !.error = <<"Step", Step(e).step_id, "failed">>,
                            !.completed_at = NOW])
    /\ SetTask(e, [task[e] EXCEPT !.pc = "done"])
    /\ UNCHANGED <<workflows, step_results, remote_calls, sleeps, response>>

\* Variant: a failed step does not abort, the loop goes on with the next step
AbortExecution_Continues(e) ==
    /\ task[e].pc = "abort"
    /\ SetTask(e, [task[e] EXCEPT !.idx = @ + 1,
                                  !.pc = LoopHead(task[e].steps, task[e].idx + 1)])
    /\ UNCHANGED <<workflows, executions, step_results, remote_calls, sleeps, response>>

\* "if not success": UPDATE ... SET status = 'failed', steps_completed, error
AbortExecution(e) ==
    /\ task[e].pc = "abort"
    /\ SetExecution(e, [executions[e] EXCEPT
                            !.status = "failed",
                            !.steps_completed = task[e].completed,
                            !.error = <<"Step", Step(e).step_id, "failed">>,
                            !.completed_at = NOW])
    /\ SetTask(e, [task[e] EXCEPT !.pc = "done"])
    /\ UNCHANGED <<workflows, step_results, remote_calls, sleeps, response>>

\* Variant: the progress is written before "completed += 1"
UpdateProgress_Stale(e) ==
    /\ task[e].pc = "progress"
    /\ SetExecution(e, [executions[e] EXCEPT !.steps_completed = task[e].completed - 1])
    /\ SetTask(e, [task[e] EXCEPT !.idx = @ + 1,
                                  !.pc = LoopHead(task[e].steps, task[e].idx + 1)])
    /\ UNCHANGED <<workflows, step_results, remote_calls, sleeps, response>>

\* UPDATE ... SET steps_completed, then the next iteration of the loop
UpdateProgress(e) ==
    /\ task[e].pc = "progress"
    /\ SetExecution(e, [executions[e] EXCEPT !.steps_completed = task[e].completed])
    /\ SetTask(e, [task[e] EXCEPT !.idx = @ + 1,
                                  !.pc = LoopHead(task[e].steps, task[e].idx + 1)])
    /\ UNCHANGED <<workflows, step_results, remote_calls, sleeps, response>>

\* Variant: the task ends after the loop without the final UPDATE
CompleteExecution_NoUpdate(e) ==
    /\ task[e].pc = "finish"
    /\ SetTask(e, [task[e] EXCEPT !.pc = "done"])
    /\ UNCHANGED <<workflows, executions, step_results, remote_calls, sleeps, response>>

\* "All steps completed": UPDATE ... SET status = 'completed'
CompleteExecution(e) ==
    /\ task[e].pc = "finish"
    /\ SetExecution(e, [executions[e] EXCEPT !.status = "completed", !.completed_at = NOW])
    /\ SetTask(e, [task[e] EXCEPT !.pc = "done"])
    /\ UNCHANGED <<workflows, step_results, remote_calls, sleeps, response>>

----------------------------------------------------------------------------
(* execute_workflow_step: the invoker of one step *)

SetStepResult(id, row) == step_results' = [step_results EXCEPT ![id] = row]

\* Leaving execute_workflow_step with False: "step_results[step_id] = success"
\* and the task stands before the UPDATE of "if not success".
ReturnFalse(e, t) ==
    SetTask(e, [t EXCEPT !.step_results = DictSet(t.step_results, Step(e).step_id, FALSE),
                         !.pc = "abort"])

\* Variant: range(step.retry_count + 1)
AttemptHead_OneMore(e, t, a) ==
    IF a <= Step(e).retry_count
    THEN SetTask(e, [t EXCEPT !.attempt = a, !.pc = "call"])
    ELSE SetTask(e, [t EXCEPT !.attempt = a,
                              !.step_results = DictSet(t.step_results, Step(e).step_id, FALSE),
                              !.pc = "abort"])

\* Variant: the first attempt is made whatever retry_count is
AttemptHead_AtLeastOnce(e, t, a) ==
    IF a < Step(e).retry_count \/ a = 0
    THEN SetTask(e, [t EXCEPT !.attempt = a, !.pc = "call"])
    ELSE ReturnFalse(e, [t EXCEPT !.attempt = a])

\* The head of "for attempt in range(step.retry_count)" for the attempt a.
AttemptHead(e, t, a) ==
    IF a < Step(e).retry_count
    THEN SetTask(e, [t EXCEPT !.attempt = a, !.pc = "call"])
    ELSE ReturnFalse(e, [t EXCEPT !.attempt = a])

\* "except Exception as e": on the last attempt the failure is recorded,
\* before it the task sleeps.
HandleException(e, t, exc) ==
    IF t.attempt = Step(e).retry_count - 1
    THEN SetTask(e, [t EXCEPT !.response = [kind |-> "exception", exc |-> exc],
                              !.pc = "record_failure"])
    ELSE SetTask(e, [t EXCEPT !.response = NoResponse, !.pc = "sleep"])

\* Variant: the retry loop is entered without the INSERT of the StepResult
RecordStepStart_NoInsert(e) ==
    /\ task[e].pc = "insert"
    /\ AttemptHead(e, [task[e] EXCEPT !.success_seen = FALSE], 0)
    /\ UNCHANGED <<workflows, executions, step_results, remote_calls, sleeps, response>>

\* INSERT INTO workflow_step_results ... 'running', then the retry loop is entered
RecordStepStart(e) ==
    /\ task[e].pc = "insert"
    /\ step_results' = Append(step_results,
           [execution_id |-> e, step_id |-> Step(e).step_id, status |-> "running",
            result |-> NULL, error |-> NULL, completed_at |-> NULL,
            pos |-> task[e].idx])
    /\ AttemptHead(e, [task[e] EXCEPT !.step_result_id = Len(step_results) + 1,
                                      !.success_seen = FALSE], 0)
    /\ UNCHANGED <<workflows, executions, remote_calls, sleeps, response>>

\* client.post / get / put / request is issued
RemoteCall(e) ==
    /\ task[e].pc = "call"
    /\ remote_calls' = [remote_calls EXCEPT ![e][task[e].idx] = @ + 1]
    /\ SetTask(e, [task[e] EXCEPT !.pc = "await"])
    /\ UNCHANGED <<workflows, executions, step_results, sleeps, response>>

\* The remote answers with a status code below 400
RespondSuccess(e, r) ==
    /\ task[e].pc = "await"
    /\ r.kind = "response" /\ r.status_code < 400
    /\ SetTask(e, [task[e] EXCEPT !.response = r, !.pc = "record",
                                  !.success_seen = TRUE])
    /\ UNCHANGED <<workflows, executions, step_results, remote_calls, sleeps, response>>

\* The remote answers with a status code of 400 or more: nothing is raised
\* and the loop goes to its next attempt.
RespondError(e, r) ==
    /\ task[e].pc = "await"
    /\ r.kind = "response" /\ ~(r.status_code < 400)
    /\ AttemptHead(e, task[e], task[e].attempt + 1)
    /\ UNCHANGED <<workflows, executions, step_results, remote_calls, sleeps, response>>

\* The call raises (transport error, timeout)
RespondException(e, r) ==
    /\ task[e].pc = "await"
    /\ r.kind = "exception"
    /\ HandleException(e, task[e], r.exc)
    /\ UNCHANGED <<workflows, executions, step_results, remote_calls, sleeps, response>>

\* Variant: True is returned without the UPDATE of the StepResult
RecordSuccess_NoUpdate(e) ==
    /\ task[e].pc = "record"
    /\ task[e].response.body = "json"
    /\ SetTask(e, [task[e] EXCEPT
           !.step_results = DictSet(@, Step(e).step_id, TRUE),
           !.completed = @ + 1, !.response = NoResponse, !.pc = "progress"])
    /\ UNCHANGED <<workflows, executions, step_results, remote_calls, sleeps, response>>

\* Variant: UPDATE workflow_step_results ... WHERE step_id = $2
RecordSuccess_ByStepId(e) ==
    /\ task[e].pc = "record"
    /\ task[e].response.body = "json"
    /\ step_results' =
          [r \in DOMAIN step_results |->
              IF step_results[r].step_id = Step(e).step_id
              THEN [step_results[r] EXCEPT
                       !.status = "completed", !.result = task[e].response.body,
                       !.completed_at = NOW]
              ELSE step_results[r]]
    /\ SetTask(e, [task[e] EXCEPT
           !.step_results = DictSet(@, Step(e).step_id, TRUE),
           !.completed = @ + 1, !.response = NoResponse, !.pc = "progress"])
    /\ UNCHANGED <<workflows, executions, remote_calls, sleeps, response>>

\* UPDATE workflow_step_results SET status = 'completed'; return True;
\* "step_results[step_id] = success" and "completed += 1"
RecordSuccess(e) ==
    /\ task[e].pc = "record"
    /\ task[e].response.body = "json"
    /\ SetStepResult(task[e].step_result_id,
           [step_results[task[e].step_result_id] EXCEPT
               !.status = "completed", !.result = task[e].response.body,
               !.completed_at = NOW])
    /\ SetTask(e, [task[e] EXCEPT
           !.step_results = DictSet(@, Step(e).step_id, TRUE),
           !.completed = @ + 1, !.response = NoResponse, !.pc = "progress"])
    /\ UNCHANGED <<workflows, executions, remote_calls, sleeps, response>>

\* response.json() raises on a body that is not JSON: the except branch
RecordRaises(e) ==
    /\ task[e].pc = "record"
    /\ task[e].response.body # "json"
    /\ HandleException(e, task[e], "JSONDecodeError")
    /\ UNCHANGED <<workflows, executions, step_results, remote_calls, sleeps, response>>

\* "Final failure": UPDATE workflow_step_results SET status = 'failed'; return False
RecordFailure(e) ==
    /\ task[e].pc = "record_failure"
    /\ SetStepResult(task[e].step_result_id,
           [step_results[task[e].step_result_id] EXCEPT
               !.status = "failed", !.error = task[e].response.exc,
               !.completed_at = NOW])
    /\ ReturnFalse(e, [task[e] EXCEPT !.response = NoResponse])
    /\ UNCHANGED <<workflows, executions, remote_calls, sleeps, response>>

\* Variant: every further attempt gets a StepResult of its own
Backoff_NewRow(e) ==
    /\ task[e].pc = "sleep"
    /\ sleeps' = [sleeps EXCEPT ![e][task[e].idx] = Append(@, 2 ^ task[e].attempt)]
    /\ step_results' = Append(step_results,
           [execution_id |-> e, step_id |-> Step(e).step_id, status |-> "running",
            result |-> NULL, error |-> NULL, completed_at |-> NULL,
            pos |-> task[e].idx])
    /\ AttemptHead(e, [task[e] EXCEPT !.step_result_id = Len(step_results) + 1],
                   task[e].attempt + 1)
    /\ UNCHANGED <<workflows, executions, remote_calls, response>>

\* await asyncio.sleep(2 ** attempt), then the next attempt
Backoff(e) ==
    /\ task[e].pc = "sleep"
    /\ sleeps' = [sleeps EXCEPT ![e][task[e].idx] = Append(@, 2 ^ task[e].attempt)]
    /\ AttemptHead(e, task[e], task[e].attempt + 1)
    /\ UNCHANGED <<workflows, executions, step_results, remote_calls, response>>

----------------------------------------------------------------------------

Next ==
    \/ \E workflow \in (IF workflows = << >> THEN Workflow ELSE {}) :
          create_workflow(workflow)
    \/ \E workflow_id \in (IF executions = << >> THEN WorkflowIds ELSE {}) :
          execute_workflow(workflow_id)
    \/ \E e \in DOMAIN task : LoadWorkflow(e)
    \/ \E e \in DOMAIN task : DependencyFailed(e)
    \/ \E e \in DOMAIN task : SetCurrentStep(e)
    \/ \E e \in DOMAIN task : RecordStepStart(e)
    \/ \E e \in DOMAIN task : RemoteCall(e)
    \/ \E e \in DOMAIN task, r \in Responses : RespondSuccess(e, r)
    \/ \E e \in DOMAIN task, r \in Responses : RespondError(e, r)
    \/ \E e \in DOMAIN task, r \in Responses : RespondException(e, r)
    \/ \E e \in DOMAIN task : RecordSuccess(e)
    \/ \E e \in DOMAIN task : RecordRaises(e)
    \/ \E e \in DOMAIN task : RecordFailure(e)
    \/ \E e \in DOMAIN task : Backoff(e)
    \/ \E e \in DOMAIN task : UpdateProgress(e)
    \/ \E e \in DOMAIN task : AbortExecution(e)
    \/ \E e \in DOMAIN task : CompleteExecution(e)

Spec == Init /\ [][Next]_vars

\* A step of the background task of execution e
TaskStep(e) ==
    \/ LoadWorkflow(e)
    \/ DependencyFailed(e)
    \/ SetCurrentStep(e)
    \/ RecordStepStart(e)
    \/ RemoteCall(e)
    \/ \E r \in Responses :
          RespondSuccess(e, r) \/ RespondError(e, r) \/ RespondException(e, r)
    \/ RecordSuccess(e)
    \/ RecordRaises(e)
    \/ RecordFailure(e)
    \/ Backoff(e)
    \/ UpdateProgress(e)
    \/ AbortExecution(e)
    \/ CompleteExecution(e)

\* Concurrent executions: the registry holds two definitions, and up to
\* MaxConcurrent executions of them are started while others run.
ConcWorkflows ==
    << [steps |-> << [step_id |-> "A", service_url |-> ServiceUrlOf["A"],
                      retry_count |-> 2, depends_on |-> << >>],
                     [step_id |-> "B", service_url |-> ServiceUrlOf["B"],
                      retry_count |-> 1, depends_on |-> <<"A", "B">>] >>,
        enabled |-> TRUE],
       [steps |-> << [step_id |-> "A", service_url |-> ServiceUrlOf["A"],
                      retry_count |-> 1, depends_on |-> << >>] >>,
        enabled |-> TRUE] >>

\* The answers of the remotes in SpecConc: one of each kind
ConcResponses ==
    { r \in Responses :
        \/ r.kind = "response" /\ r.status_code \in {200, 500}
        \/ r.kind = "exception" /\ r.exc = "ConnectError" }

InitConc ==
    /\ workflows = ConcWorkflows
    /\ executions = << >>
    /\ step_results = << >>
    /\ task = << >>
    /\ remote_calls = << >>
    /\ sleeps = << >>
    /\ response = [op |-> "none", workflow_id |-> 0, status |-> 0, id |-> 0]

NextConc ==
    \/ \E workflow_id \in (IF Len(executions) < MaxConcurrent THEN WorkflowIds ELSE {}) :
          execute_workflow(workflow_id)
    \/ \E e \in DOMAIN task : LoadWorkflow(e)
    \/ \E e \in DOMAIN task : DependencyFailed(e)
    \/ \E e \in DOMAIN task : SetCurrentStep(e)
    \/ \E e \in DOMAIN task : RecordStepStart(e)
    \/ \E e \in DOMAIN task : RemoteCall(e)
    \/ \E e \in DOMAIN task, r \in ConcResponses : RespondSuccess(e, r)
    \/ \E e \in DOMAIN task, r \in ConcResponses : RespondError(e, r)
    \/ \E e \in DOMAIN task, r \in ConcResponses : RespondException(e, r)
    \/ \E e \in DOMAIN task : RecordSuccess(e)
    \/ \E e \in DOMAIN task : RecordRaises(e)
    \/ \E e \in DOMAIN task : RecordFailure(e)
    \/ \E e \in DOMAIN task : Backoff(e)
    \/ \E e \in DOMAIN task : UpdateProgress(e)
    \/ \E e \in DOMAIN task : AbortExecution(e)
    \/ \E e \in DOMAIN task : CompleteExecution(e)

SpecConc == InitConc /\ [][NextConc]_vars

\* The event loop runs a background task that can go on: a statement of the
\* store returns, asyncio.sleep ends, and a remote call answers or runs
\* into the timeout of the attempt (httpx.AsyncClient(timeout=step.timeout)).
\* The definitions it is checked with are enabled and name their steps A, B,
\* A, ... in turn; every retry_count and depends_on of Workflow occurs.
LiveWorkflow ==
    { w \in Workflow :
        /\ w.enabled
        /\ \A i \in DOMAIN w.steps :
              w.steps[i].step_id = (IF i % 2 = 1 THEN "A" ELSE "B") }

NextLive ==
    \/ \E workflow \in (IF workflows = << >> THEN LiveWorkflow ELSE {}) :
          create_workflow(workflow)
    \/ \E workflow_id \in (IF executions = << >> THEN WorkflowIds ELSE {}) :
          execute_workflow(workflow_id)
    \/ \E e \in DOMAIN task : LoadWorkflow(e)
    \/ \E e \in DOMAIN task : DependencyFailed(e)
    \/ \E e \in DOMAIN task : SetCurrentStep(e)
    \/ \E e \in DOMAIN task : RecordStepStart(e)
    \/ \E e \in DOMAIN task : RemoteCall(e)
    \/ \E e \in DOMAIN task, r \in Responses : RespondSuccess(e, r)
    \/ \E e \in DOMAIN task, r \in Responses : RespondError(e, r)
    \/ \E e \in DOMAIN task, r \in Responses : RespondException(e, r)
    \/ \E e \in DOMAIN task : RecordSuccess(e)
    \/ \E e \in DOMAIN task : RecordRaises(e)
    \/ \E e \in DOMAIN task : RecordFailure(e)
    \/ \E e \in DOMAIN task : Backoff(e)
    \/ \E e \in DOMAIN task : UpdateProgress(e)
    \/ \E e \in DOMAIN task : AbortExecution(e)
    \/ \E e \in DOMAIN task : CompleteExecution(e)

LiveSpec ==
    Init /\ [][NextLive]_vars /\ WF_vars(\E e \in DOMAIN task : TaskStep(e))

----------------------------------------------------------------------------
(* The store fails: pool.acquire() or a statement raises.  The field
   store_errors of the task counts the failures it met. *)

\* The UPDATE ... 'completed' (or the pool.acquire() before it) raises
\* inside the "try" of the attempt: "except Exception" takes it like a
\* failed call.
StoreErrorCaught(e) ==
    /\ task[e].pc = "record"
    /\ HandleException(e, [task[e] EXCEPT !.store_errors = @ + 1], "PostgresError")
    /\ UNCHANGED <<workflows, executions, step_results, remote_calls, sleeps, response>>

\* A statement outside the "try" raises (the statements of
\* execute_workflow_background, the INSERT of the StepResult, the UPDATE
\* ... 'failed' inside the except branch): the exception leaves the
\* background task, which ends without a further statement.
StoreErrorPropagates(e) ==
    /\ task[e].pc \in {"load", "check", "insert", "record_failure",
                       "progress", "abort", "finish"}
    /\ SetTask(e, [task[e] EXCEPT !.store_errors = @ + 1, !.pc = "crashed"])
    /\ UNCHANGED <<workflows, executions, step_results, remote_calls, sleeps, response>>

NextStore ==
    \/ Next
    \/ \E e \in DOMAIN task : StoreErrorCaught(e)
    \/ \E e \in DOMAIN task : StoreErrorPropagates(e)

SpecStore == Init /\ [][NextStore]_vars

----------------------------------------------------------------------------
(* get_execution_status beside a running execution.  The two SELECTs are two
   statements without a transaction: the task may take steps between them.
   The variable response holds the query: after the first SELECT the row
   read, after the second the answer. *)

QueryWorkflows ==
    << [steps |-> << [step_id |-> "A", service_url |-> ServiceUrlOf["A"],
                      retry_count |-> 2, depends_on |-> << >>],
                     [step_id |-> "B", service_url |-> ServiceUrlOf["B"],
                      retry_count |-> 1, depends_on |-> <<"A">>] >>,
        enabled |-> TRUE],
       [steps |-> << [step_id |-> "A", service_url |-> ServiceUrlOf["A"],
                      retry_count |-> 1, depends_on |-> <<"A">>] >>,
        enabled |-> TRUE] >>

ExecutionIds == {1, 2}

InitQuery ==
    /\ workflows = QueryWorkflows
    /\ executions = << >>
    /\ step_results = << >>
    /\ task = << >>
    /\ remote_calls = << >>
    /\ sleeps = << >>
    /\ response = [op |-> "none", workflow_id |-> 0, status |-> 0, id |-> 0]

QueryInProgress ==
    response.op = "get_execution_status" /\ response.status = 0

\* SELECT ... FROM workflow_executions WHERE id = $1 AND workflow_id = $2;
\* 404 when there is no such row
ReadExecution(workflow_id, execution_id) ==
    /\ ~QueryInProgress
    /\ IF execution_id \in DOMAIN executions
          /\ executions[execution_id].workflow_id = workflow_id
       THEN response' = [op |-> "get_execution_status", workflow_id |-> workflow_id,
                         id |-> execution_id, status |-> 0,
                         execution |-> executions[execution_id], steps |-> << >>]
       ELSE response' = [op |-> "get_execution_status", workflow_id |-> workflow_id,
                         id |-> execution_id, status |-> 404,
                         execution |-> NULL, steps |-> << >>]
    /\ UNCHANGED <<workflows, executions, step_results, task, remote_calls, sleeps>>

\* The rows of an execution in the order of their INSERT (ORDER BY
\* started_at), with the columns the answer lists.
RECURSIVE ListedSteps(_, _)
ListedSteps(execution_id, n) ==
    IF n = 0 THEN << >>
    ELSE LET rest == ListedSteps(execution_id, n - 1)
         IN  IF step_results[n].execution_id = execution_id
             THEN Append(rest, [step_id |-> step_results[n].step_id,
                                status |-> step_results[n].status,
                                error |-> step_results[n].error])
             ELSE rest

\* Variant: SELECT ... LIMIT 1
ReadStepResults_FirstOnly ==
    /\ QueryInProgress
    /\ response' = [response EXCEPT
           !.status = 200,
           !.steps = LET all == ListedSteps(response.id, Len(step_results))
                     IN  IF all = << >> THEN all ELSE <<all[1]>>]
    /\ UNCHANGED <<workflows, executions, step_results, task, remote_calls, sleeps>>

\* SELECT ... FROM workflow_step_results WHERE execution_id = $1, and the
\* answer is returned
ReadStepResults ==
    /\ QueryInProgress
    /\ response' = [response EXCEPT
           !.status = 200,
           !.steps = ListedSteps(response.id, Len(step_results))]
    /\ UNCHANGED <<workflows, executions, step_results, task, remote_calls, sleeps>>

NextQuery ==
    \/ \E workflow_id \in (IF executions = << >> /\ ~QueryInProgress
                            THEN WorkflowIds ELSE {}) :
          execute_workflow(workflow_id)
    \/ \E workflow_id \in WorkflowIds, execution_id \in ExecutionIds :
          ReadExecution(workflow_id, execution_id)
    \/ ReadStepResults
    \/ \E e \in DOMAIN task : LoadWorkflow(e)
    \/ \E e \in DOMAIN task : DependencyFailed(e)
    \/ \E e \in DOMAIN task : SetCurrentStep(e)
    \/ \E e \in DOMAIN task : RecordStepStart(e)
    \/ \E e \in DOMAIN task : RemoteCall(e)
    \/ \E e \in DOMAIN task, r \in ConcResponses : RespondSuccess(e, r)
    \/ \E e \in DOMAIN task, r \in ConcResponses : RespondError(e, r)
    \/ \E e \in DOMAIN task, r \in ConcResponses : RespondException(e, r)
    \/ \E e \in DOMAIN task : RecordSuccess(e)
    \/ \E e \in DOMAIN task : RecordRaises(e)
    \/ \E e \in DOMAIN task : RecordFailure(e)
    \/ \E e \in DOMAIN task : Backoff(e)
    \/ \E e \in DOMAIN task : UpdateProgress(e)
    \/ \E e \in DOMAIN task : AbortExecution(e)
    \/ \E e \in DOMAIN task : CompleteExecution(e)

SpecQuery == InitQuery /\ [][NextQuery]_vars

----------------------------------------------------------------------------
(* validate_service_url applied to URLs of every shape *)

Urls ==
    [scheme : {"http", "https", "ftp", "file", ""},
     hostname : {"rca-api", "cache-service", "evil.example", "localhost", ""},
     port : {NoPort, <<0>>, <<80>>, <<7999>>, <<8000>>, <<8015>>, <<8016>>,
             <<65535>>, <<65536>>}]

InitUrl ==
    /\ workflows = << >>
    /\ executions = << >>
    /\ step_results = << >>
    /\ task = << >>
    /\ remote_calls = << >>
    /\ sleeps = << >>
    /\ response = [op |-> "none"]

ValidateUrl(url) ==
    /\ response' = [op |-> "validate_service_url", url |-> url,
                    result |-> validate_service_url(url)]
    /\ UNCHANGED <<workflows, executions, step_results, task, remote_calls, sleeps>>

NextUrl == \E url \in Urls : ValidateUrl(url)

SpecUrl == InitUrl /\ [][NextUrl]_vars

----------------------------------------------------------------------------
(* Vocabulary of the properties *)

Range(seq) == { seq[i] : i \in DOMAIN seq }

\* The StepResult rows of execution e, and those of its step at position i
RowsOf(e) == { r \in DOMAIN step_results : step_results[r].execution_id = e }

RowsAt(e, i) == { r \in RowsOf(e) : step_results[r].pos = i }

Terminal(e) == executions[e].status \in {"completed", "failed"}

\* execute_workflow_step has returned False for the step the task stands at
StepFailed(e) ==
    /\ task[e].pc \in {"abort", "done"}
    /\ task[e].idx \in DOMAIN task[e].steps
    /\ Step(e).step_id \in DOMAIN task[e].step_results
    /\ ~task[e].step_results[Step(e).step_id]

\* C1: no remote call is ever issued for a step whose service_url fails
\* validate_service_url.
C1_NoCallToRejectedUrl ==
    \A e \in DOMAIN task : \A i \in DOMAIN remote_calls[e] :
        remote_calls[e][i] > 0 => validate_service_url(task[e].steps[i].service_url)

\* C2: when the k-th step has failed, the execution ends failed with
\* steps_completed = k-1, and no step declared after k has a StepResult or
\* a remote call.
C2_AbortOnStepFailure ==
    \A e \in DOMAIN task :
        StepFailed(e) =>
            LET k == task[e].idx
            IN  /\ task[e].pc = "done" =>
                      /\ executions[e].status = "failed"
                      /\ executions[e].steps_completed = k - 1
                /\ \A i \in DOMAIN task[e].steps :
                      i > k => RowsAt(e, i) = {} /\ remote_calls[e][i] = 0

C2_Witness ==
    \E e \in DOMAIN task :
        /\ StepFailed(e) /\ task[e].pc = "done"
        /\ task[e].idx = 1 /\ Len(task[e].steps) = 2
        /\ task[e].steps[2].depends_on = << >>
        /\ task[e].steps[2].retry_count > 0
        /\ remote_calls[e][1] = Step(e).retry_count
        /\ remote_calls[e][1] > 0

\* The pos of the rows of e, in the order of the table
RECURSIVE PosOrder(_, _)
PosOrder(e, rows) ==
    IF rows = << >> THEN << >>
    ELSE IF Head(rows).execution_id = e
         THEN <<Head(rows).pos>> \o PosOrder(e, Tail(rows))
         ELSE PosOrder(e, Tail(rows))

NoDependencies(steps) == \A i \in DOMAIN steps : steps[i].depends_on = << >>

AllSucceeded(e) ==
    \A i \in DOMAIN task[e].steps :
        \E r \in RowsAt(e, i) : step_results[r].status = "completed"

\* C3: in a workflow without dependencies the steps are invoked one by one
\* in declared order, and when the task has ended with every step
\* succeeded the execution is completed with steps_completed = total_steps.
C3_IndependentStepsRunInOrder ==
    \A e \in DOMAIN task :
        (task[e].pc # "load" /\ NoDependencies(task[e].steps)) =>
            /\ LET order == PosOrder(e, step_results)
               IN  \A j \in DOMAIN order : order[j] = j
            /\ (task[e].pc = "done" /\ AllSucceeded(e)) =>
                  /\ executions[e].status = "completed"
                  /\ executions[e].total_steps = <<Len(task[e].steps)>>
                  /\ executions[e].steps_completed = Len(task[e].steps)

C3_Witness ==
    \E e \in DOMAIN task :
        /\ task[e].pc = "done" /\ Len(task[e].steps) = 2
        /\ NoDependencies(task[e].steps) /\ AllSucceeded(e)
        /\ executions[e].steps_completed = 2

\* C4: no step of an execution gets more than retry_count remote calls, and
\* when the invoker declares the step failed it has made exactly
\* retry_count calls.
C4_ExactlyRetryCountCalls ==
    \A e \in DOMAIN task :
        /\ \A i \in DOMAIN remote_calls[e] :
              remote_calls[e][i] <= task[e].steps[i].retry_count
        /\ (StepFailed(e) \/ task[e].pc = "record_failure") =>
              remote_calls[e][task[e].idx] = Step(e).retry_count

C4_Witness ==
    \E e \in DOMAIN task :
        /\ StepFailed(e)
        /\ Step(e).retry_count = 2
        /\ remote_calls[e][task[e].idx] = 2

\* C5: whenever the invoker has returned failure for a step after making
\* its attempts, the step's StepResult is failed, with the error persisted
\* and completed_at set.
C5_FailureIsRecorded ==
    \A e \in DOMAIN task :
        (StepFailed(e) /\ remote_calls[e][task[e].idx] > 0) =>
            LET row == step_results[task[e].step_result_id]
            IN  /\ row.status = "failed"
                /\ row.error # NULL
                /\ row.completed_at # NULL

\* The step at position i of execution e has been invoked: it has a
\* StepResult or a remote call.
Invoked(e, i) == RowsAt(e, i) # {} \/ remote_calls[e][i] > 0

\* The dependency dep of the step at position i has succeeded earlier in
\* the execution: a step declared before i with that id has a completed
\* StepResult.
SucceededEarlier(e, i, dep) ==
    \E j \in 1..(i - 1) :
        /\ task[e].steps[j].step_id = dep
        /\ \E r \in RowsAt(e, j) : step_results[r].status = "completed"

\* The task has returned out of the dependency check of the step it stands at
DependencyCheckFailed(e) ==
    /\ task[e].pc = "done"
    /\ task[e].idx \in DOMAIN task[e].steps
    /\ ~StepFailed(e)

\* C6: a step with dependencies is invoked only if every dependency has
\* succeeded earlier in the same execution; with a dependency that is
\* absent or failed the step is not invoked and the task ends in order.
C6_InvokedOnlyWithDependenciesMet ==
    \A e \in DOMAIN task : \A i \in DOMAIN task[e].steps :
        LET deps == Range(task[e].steps[i].depends_on)
            met == \A dep \in deps : SucceededEarlier(e, i, dep)
        IN  /\ Invoked(e, i) => met
            /\ (task[e].idx = i /\ ~met /\ task[e].pc # "check") =>
                  /\ task[e].pc = "done"
                  /\ RowsAt(e, i) = {} /\ remote_calls[e][i] = 0

C6_Witness ==
    \E e \in DOMAIN task :
        /\ Len(task[e].steps) = 2
        /\ task[e].steps[2].depends_on = <<"A", "B">>
        /\ task[e].idx = 2 /\ task[e].pc = "done"
        /\ SucceededEarlier(e, 2, "A") /\ ~SucceededEarlier(e, 2, "B")
        /\ ~Invoked(e, 2)

\* C7: when the dependency check of a step fails the execution is failed
\* with the error "Dependency <id> failed" naming an unmet dependency of
\* the step and completed_at set, and neither the step nor a later one has
\* a StepResult or a remote call.
C7_DependencyFailureAborts ==
    \A e \in DOMAIN task :
        DependencyCheckFailed(e) =>
            LET i == task[e].idx
                err == executions[e].error
            IN  /\ executions[e].status = "failed"
                /\ executions[e].completed_at # NULL
                /\ Len(err) = 3 /\ err[1] = "Dependency" /\ err[3] = "failed"
                /\ err[2] \in Range(task[e].steps[i].depends_on)
                /\ ~SucceededEarlier(e, i, err[2])
                /\ \A j \in DOMAIN task[e].steps :
                      j >= i => RowsAt(e, j) = {} /\ remote_calls[e][j] = 0

C7_Witness ==
    \E e \in DOMAIN task :
        /\ DependencyCheckFailed(e)
        /\ task[e].idx = 2
        /\ Step(e).depends_on = <<"A", "B">>
        /\ SucceededEarlier(e, 2, "A")
        /\ executions[e].error = <<"Dependency", "B", "failed">>

\* C8: once an Execution is terminal its row is never written again, and
\* no StepResult of it is written or added.
C8_TerminalIsFinal ==
    [][ \A e \in DOMAIN executions :
          Terminal(e) =>
            /\ executions'[e] = executions[e]
            /\ \A r \in DOMAIN step_results' :
                  step_results'[r].execution_id = e =>
                      r \in DOMAIN step_results /\ step_results'[r] = step_results[r]
      ]_vars

C8_Witness ==
    \E e \in DOMAIN executions :
        /\ executions[e].status = "failed"
        /\ executions[e].steps_completed = 1
        /\ \E r \in RowsOf(e) : step_results[r].status = "failed"
        /\ task[e].pc = "done"

\* C9: a completed Execution has, for every step of its workflow
\* definition, a completed StepResult, the steps having succeeded in
\* declared order, and none of its StepResults is running or failed.
C9_CompletedMeansAllStepsCompleted ==
    \A e \in DOMAIN executions :
        executions[e].status = "completed" =>
            LET steps == workflows[executions[e].workflow_id].steps
                order == PosOrder(e, step_results)
            IN  /\ \A i \in DOMAIN steps :
                      \E r \in RowsAt(e, i) :
                          /\ step_results[r].status = "completed"
                          /\ step_results[r].step_id = steps[i].step_id
                /\ order = [j \in DOMAIN steps |-> j]
                /\ \A r \in RowsOf(e) : step_results[r].status = "completed"

C9_Witness ==
    \E e \in DOMAIN executions :
        /\ executions[e].status = "completed"
        /\ Len(workflows[executions[e].workflow_id].steps) = 2
        /\ Cardinality(RowsOf(e)) = 2

\* C10: an execute request for an absent workflow is answered 404 and one
\* for a disabled workflow 400, and neither creates an Execution or
\* touches a step; any other request creates exactly one Execution, in
\* status running, and returns its id.
C10_ExecuteRequest ==
    [][ (response' # response /\ response'.op = "execute_workflow") =>
          LET w == response'.workflow_id
              absent == w \notin DOMAIN workflows
              disabled == ~absent /\ ~workflows[w].enabled
              new == Len(executions) + 1
          IN  /\ absent => response'.status = 404
              /\ disabled => response'.status = 400
              /\ (absent \/ disabled) =>
                    /\ executions' = executions /\ task' = task
                    /\ step_results' = step_results /\ remote_calls' = remote_calls
                    /\ sleeps' = sleeps
              /\ (~absent /\ ~disabled) =>
                    /\ response'.status = 200 /\ response'.id = new
                    /\ DOMAIN executions' = 1..new
                    /\ \A e \in DOMAIN executions : executions'[e] = executions[e]
                    /\ executions'[new].status = "running"
                    /\ executions'[new].workflow_id = w
                    /\ step_results' = step_results
      ]_vars

C10_Witness ==
    /\ response.op = "execute_workflow" /\ response.status = 400
    /\ response.workflow_id \in DOMAIN workflows
    /\ executions = << >> /\ step_results = << >>

\* C11: every Execution that has been started eventually reaches a terminal
\* state, completed or failed, whatever the remote answers.
C11_ExecutionTerminates ==
    \A e \in 1..1 : (e \in DOMAIN executions) ~> (e \in DOMAIN executions /\ Terminal(e))

C11_Witness ==
    \E e \in DOMAIN executions :
        /\ Terminal(e)
        /\ remote_calls[e] # << >>
        /\ remote_calls[e][1] = 2
        /\ Len(sleeps[e][1]) = 1

\* C12: a step in which the task of an Execution does not move leaves that
\* Execution's row, its StepResults and its remote calls as they are, and
\* adds no StepResult to it: only its own task writes them.
C12_OnlyOwnTaskWrites ==
    [][ \A e \in DOMAIN task :
          task'[e] = task[e] =>
            /\ executions'[e] = executions[e]
            /\ remote_calls'[e] = remote_calls[e]
            /\ \A r \in DOMAIN step_results :
                  step_results[r].execution_id = e =>
                      r \in DOMAIN step_results' /\ step_results'[r] = step_results[r]
            /\ \A r \in DOMAIN step_results' :
                  step_results'[r].execution_id = e => r \in DOMAIN step_results
      ]_vars

\* Two executions in the middle of their runs, each with a StepResult of
\* a step with the same id, the later one already completed.
C12_Witness ==
    /\ Len(executions) >= 2
    /\ task[1].pc = "await" /\ task[2].pc = "progress"
    /\ \E r1 \in RowsOf(1), r2 \in RowsOf(2) :
          /\ step_results[r1].step_id = step_results[r2].step_id
          /\ step_results[r1].status = "running"
          /\ step_results[r2].status = "completed"

\* The steps of execution e that have a remote call in flight
InFlight(e) ==
    { i \in DOMAIN task[e].steps : task[e].pc = "await" /\ task[e].idx = i }

\* C13: at most one step of an Execution has a remote call in flight, and
\* the step at position i+1 has a StepResult or a remote call only when
\* the StepResult of step i is completed and step i has no call in flight.
C13_StepsRunSequentially ==
    \A e \in DOMAIN task :
        /\ Cardinality(InFlight(e)) <= 1
        /\ \A i \in DOMAIN task[e].steps :
              (i > 1 /\ Invoked(e, i)) =>
                  /\ \E r \in RowsAt(e, i - 1) : step_results[r].status = "completed"
                  /\ \A r \in RowsAt(e, i - 1) : step_results[r].status = "completed"
                  /\ (i - 1) \notin InFlight(e)

C13_Witness ==
    \E e \in DOMAIN task :
        /\ InFlight(e) = {2}
        /\ remote_calls[e][1] = 2 /\ remote_calls[e][2] = 1
        /\ \E r \in RowsAt(e, 2) : step_results[r].status = "running"

\* The invariant of a workflow definition: step ids pairwise distinct,
\* every depends_on entry a step id of the definition, none the step's own.
ValidDefinition(steps) ==
    /\ \A i, j \in DOMAIN steps : steps[i].step_id = steps[j].step_id => i = j
    /\ \A i \in DOMAIN steps : \A dep \in Range(steps[i].depends_on) :
          /\ \E j \in DOMAIN steps : steps[j].step_id = dep
          /\ dep # steps[i].step_id

\* C14: every definition held by the registry satisfies the definition
\* invariant.
C14_RegistryHoldsValidDefinitions ==
    \A w \in DOMAIN workflows : ValidDefinition(workflows[w].steps)

\* C15: in every state in which an Execution record exists its total_steps
\* is the number of steps of its workflow.
C15_TotalStepsIsNumberOfSteps ==
    \A e \in DOMAIN executions :
        executions[e].total_steps = <<Len(workflows[executions[e].workflow_id].steps)>>

\* The part of C16 about the changes of steps_completed: it changes only by
\* plus one, in the step of the task that follows the successful completion
\* of the current step.
ProgressAdvancesByOne ==
    [][\A e \in DOMAIN executions :
          executions'[e].steps_completed # executions[e].steps_completed =>
              /\ executions'[e].steps_completed = executions[e].steps_completed + 1
              /\ task[e].pc = "progress"
              /\ step_results[task[e].step_result_id].status = "completed"
              /\ step_results[task[e].step_result_id].execution_id = e]_vars

\* C16: in every state, 0 <= steps_completed <= total_steps for every
\* Execution (total_steps is a number and bounds steps_completed).
C16_ProgressWithinTotal ==
    \A e \in DOMAIN executions :
        /\ 0 <= executions[e].steps_completed
        /\ executions[e].total_steps # NoTotal
        /\ executions[e].steps_completed <= executions[e].total_steps[1]

\* C17: a failure of the store while a transition is persisted is
\* propagated: the task that met it ends with the exception, it does not go
\* on as after a failed attempt.
C17_StoreErrorPropagates ==
    [][\A e \in DOMAIN task :
          task'[e].store_errors > task[e].store_errors => task'[e].pc = "crashed"]_vars

\* The StepResults of the steps before the one at which the task stands:
\* each is there, completed, with its result.
EarlierResultsRetained(e) ==
    \A i \in 1..(task[e].idx - 1) :
        \E r \in RowsAt(e, i) :
            /\ step_results[r].status = "completed"
            /\ step_results[r].result = "json"
            /\ step_results[r].step_id = task[e].steps[i].step_id

\* C18: a failed Execution has the completed StepResults of all steps before
\* the one it was aborted at, and no step of the program (the aborts
\* included) removes or changes a completed StepResult.
C18_FailedExecutionRetainsResults ==
    /\ [](\A e \in DOMAIN executions :
             executions[e].status = "failed" => EarlierResultsRetained(e))
    /\ [][\A r \in DOMAIN step_results :
             step_results[r].status = "completed" =>
                 r \in DOMAIN step_results' /\ step_results'[r] = step_results[r]]_vars

C18_Witness ==
    \E e \in DOMAIN executions :
        /\ executions[e].status = "failed"
        /\ executions[e].error = <<"Dependency", "B", "failed">>
        /\ task[e].idx = 2
        /\ \E r \in RowsAt(e, 1) :
               step_results[r].status = "completed" /\ step_results[r].result = "json"
        /\ RowsAt(e, 2) = {}

\* The port the claim C19 reads from a URL: the stated one, 8000 when the URL
\* states none.
StatedPort(url) == IF url.port = NoPort THEN 8000 ELSE url.port[1]

\* C19: validate_service_url returns True exactly when the scheme is http or
\* https, the hostname is in ALLOWED_SERVICES and the port (8000 when none
\* is stated) is in 8000..8015.
C19_ValidatesExactlyAllowedUrls ==
    response.op = "validate_service_url" =>
        (response.result <=>
            /\ response.url.scheme \in {"http", "https"}
            /\ response.url.hostname \in ALLOWED_SERVICES
            /\ StatedPort(response.url) \in 8000..8015)

\* C20: once an attempt of the current step got a success status (the field
\* success_seen of the task), no further remote call is made for the step.
C20_NoCallAfterSuccessStatus ==
    [][\A e \in DOMAIN task :
          task[e].success_seen => remote_calls'[e] = remote_calls[e]]_vars

\* C21: a StepResult becomes completed only on an attempt answered with a
\* status of the 2xx class.
C21_CompletedOnlyOn2xx ==
    [][\A r \in DOMAIN step_results :
          (step_results[r].status # "completed" /\ step_results'[r].status = "completed") =>
              LET e == step_results[r].execution_id
              IN  /\ task[e].response.kind = "response"
                  /\ task[e].response.status_code \in 200..299]_vars

\* C22: before the n-th call of a step there were n - 1 backoff waits, the
\* k-th of 2^(k-1) seconds, and no wait follows the last attempt.
C22_BackoffBetweenAttempts ==
    \A e \in DOMAIN remote_calls :
        \A i \in DOMAIN remote_calls[e] :
            LET calls == remote_calls[e][i]
                waits == sleeps[e][i]
            IN  /\ calls > 0 => Len(waits) >= calls - 1
                /\ Len(waits) <= calls
                /\ \A k \in DOMAIN waits : waits[k] = 2 ^ (k - 1)
                /\ (calls > 0 /\ calls = task[e].steps[i].retry_count) => Len(waits) = calls - 1

\* C23: when the StepResult of the step the task stands at exists or a call
\* was made for it, current_step already is the id of that step; and when
\* the Execution failed because that step failed, current_step is its id
\* and error names it.
C23_CurrentStepNamesInvokedStep ==
    \A e \in DOMAIN task :
        task[e].idx \in DOMAIN task[e].steps =>
            /\ (RowsAt(e, task[e].idx) # {} \/ remote_calls[e][task[e].idx] > 0) =>
                   executions[e].current_step = Step(e).step_id
            /\ (StepFailed(e) /\ executions[e].status = "failed") =>
                   /\ executions[e].current_step = Step(e).step_id
                   /\ executions[e].error = <<"Step", Step(e).step_id, "failed">>

C23_Witness ==
    \E e \in DOMAIN task :
        /\ StepFailed(e) /\ executions[e].status = "failed"
        /\ task[e].idx = 2
        /\ remote_calls[e][2] = 2
        /\ executions[e].current_step = "B"
        /\ executions[e].error = <<"Step", "B", "failed">>
        /\ task[e].steps[1].step_id = "A"

\* C24: a step for which a remote call was issued has a StepResult of its
\* execution, and at the moment a call is issued that StepResult is there
\* with status running.
C24_CallPrecededByStepResult ==
    /\ [](\A e \in DOMAIN remote_calls :
             \A i \in DOMAIN remote_calls[e] :
                 remote_calls[e][i] > 0 => RowsAt(e, i) # {})
    /\ [][\A e \in DOMAIN remote_calls :
             \A i \in DOMAIN remote_calls[e] :
                 remote_calls'[e][i] > remote_calls[e][i] =>
                     \E r \in RowsAt(e, i) :
                         /\ step_results[r].status = "running"
                         /\ step_results[r].step_id = task[e].steps[i].step_id]_vars

C24_Witness ==
    \E e \in DOMAIN task :
        /\ task[e].pc = "await"
        /\ task[e].idx = 1
        /\ remote_calls[e][1] = 1
        /\ \E r \in RowsAt(e, 1) : step_results[r].status = "running"
        /\ Cardinality(RowsOf(e)) = 1

\* execute_workflow_step was entered for the step at index i of execution e
\* and its INSERT was made.
Started(e, i) ==
    \/ i < task[e].idx
    \/ /\ i = task[e].idx
       /\ \/ task[e].pc \in {"call", "await", "record", "record_failure",
                             "sleep", "progress", "abort"}
          \/ task[e].pc = "done" /\ StepFailed(e)

\* C25: every step that was started has exactly one StepResult, a step not
\* started has none, so the rows of an Execution are as many as the steps
\* started, whatever the number of attempts; and a row keeps its place and
\* its step (it is updated, never replaced).
C25_OneStepResultPerStep ==
    /\ [](\A e \in DOMAIN task :
             /\ \A i \in DOMAIN task[e].steps :
                    Cardinality(RowsAt(e, i)) = IF Started(e, i) THEN 1 ELSE 0
             /\ Cardinality(RowsOf(e)) =
                    Cardinality({ i \in DOMAIN task[e].steps : Started(e, i) }))
    /\ [][\A r \in DOMAIN step_results :
             /\ r \in DOMAIN step_results'
             /\ step_results'[r].execution_id = step_results[r].execution_id
             /\ step_results'[r].step_id = step_results[r].step_id
             /\ step_results'[r].pos = step_results[r].pos]_vars

C25_Witness ==
    \E e \in DOMAIN task :
        /\ Len(task[e].steps) = 2
        /\ task[e].pc = "done" /\ executions[e].status = "completed"
        /\ remote_calls[e][1] = 2 /\ remote_calls[e][2] = 2
        /\ Cardinality(RowsOf(e)) = 2

\* The ids of the steps declared before index i.
EarlierIds(steps, i) == { steps[j].step_id : j \in 1..(i - 1) }

\* Some step names in depends_on an id that no earlier step has.
HasUnexecutableReference(steps) ==
    \E i \in DOMAIN steps :
        \E d \in DOMAIN steps[i].depends_on :
            steps[i].depends_on[d] \notin EarlierIds(steps, i)

\* C26: at a dependency check the recorded outcomes are those of the earlier
\* steps and all are success; the check fails exactly when a depends_on id
\* is not the id of an earlier step; an Execution that completed has a
\* definition without such a reference.
C26_DependencyFailsOnlyOnUnexecutedId ==
    \A e \in DOMAIN task :
        /\ task[e].pc = "check" =>
               /\ DOMAIN task[e].step_results = EarlierIds(task[e].steps, task[e].idx)
               /\ \A k \in DOMAIN task[e].step_results : task[e].step_results[k]
               /\ UnmetDeps(Step(e).depends_on, task[e].step_results) # {} <=>
                      \E d \in DOMAIN Step(e).depends_on :
                          Step(e).depends_on[d] \notin EarlierIds(task[e].steps, task[e].idx)
        /\ DependencyCheckFailed(e) =>
               /\ executions[e].status = "failed"
               /\ \E d \in DOMAIN Step(e).depends_on :
                      Step(e).depends_on[d] \notin EarlierIds(task[e].steps, task[e].idx)
        /\ executions[e].status = "completed" =>
               ~HasUnexecutableReference(workflows[executions[e].workflow_id].steps)

C26_Witness ==
    \E e \in DOMAIN task :
        /\ task[e].pc = "check" /\ task[e].idx = 2
        /\ Step(e).step_id = "B" /\ Step(e).depends_on = <<"A", "B">>
        /\ DOMAIN task[e].step_results = {"A"}
        /\ UnmetDeps(Step(e).depends_on, task[e].step_results) = {2}

\* C27: every StepResult of an Execution in a terminal state is completed or
\* failed and has completed_at set.
C27_TerminalHasNoRunningStepResult ==
    \A e \in DOMAIN executions :
        Terminal(e) =>
            \A r \in RowsOf(e) :
                /\ step_results[r].status \in {"completed", "failed"}
                /\ step_results[r].completed_at # NULL

\* C28: for a step with retry_count = 0 no call is ever made, the task never
\* gets past it, and once the step was started and the task has ended the
\* Execution is failed with the error "Step <id> failed".
C28_ZeroRetryCountFailsWithoutCall ==
    \A e \in DOMAIN task :
        \A i \in DOMAIN task[e].steps :
            task[e].steps[i].retry_count = 0 =>
                /\ remote_calls[e][i] = 0
                /\ task[e].idx <= i
                /\ task[e].idx = i => task[e].pc \in {"check", "insert", "abort", "done"}
                /\ (Started(e, i) /\ task[e].pc = "done") =>
                       /\ executions[e].status = "failed"
                       /\ executions[e].error = <<"Step", task[e].steps[i].step_id, "failed">>

C28_Witness ==
    \E e \in DOMAIN task :
        /\ Len(task[e].steps) = 2
        /\ task[e].idx = 2 /\ task[e].pc = "done"
        /\ Step(e).retry_count = 0
        /\ Started(e, 2)
        /\ remote_calls[e][1] > 0 /\ remote_calls[e][2] = 0
        /\ executions[e].error = <<"Step", Step(e).step_id, "failed">>
        /\ executions[e].steps_completed = 1

\* The answer of a status query that found its execution.
Answered ==
    response.op = "get_execution_status" /\ response.status = 200

CompletedListed ==
    { k \in DOMAIN response.steps : response.steps[k].status = "completed" }

\* C29: an answer of get_execution_status reports steps_completed not above
\* the number of completed StepResults it lists, and an answer with status
\* completed lists a completed StepResult for each step of the workflow, in
\* the order of the steps.
C29_QueryNeverAheadOfStepList ==
    Answered =>
        /\ response.execution.steps_completed <= Cardinality(CompletedListed)
        /\ response.execution.status = "completed" =>
               LET steps == workflows[response.workflow_id].steps
               IN  /\ Len(response.steps) = Len(steps)
                   /\ \A i \in DOMAIN steps :
                          /\ response.steps[i].step_id = steps[i].step_id
                          /\ response.steps[i].status = "completed"

\* The task has advanced between the two SELECTs of the query.
C29_Witness ==
    /\ Answered
    /\ response.execution.status = "running"
    /\ response.execution.steps_completed = 1
    /\ Cardinality(CompletedListed) = 2
    /\ executions[response.id].status = "completed"

\* C30: after an abort on an unmet dependency of the step at index k,
\* current_step is the id of the step at k - 1 (NULL when k = 1) and
\* steps_completed is the number of steps that succeeded, k - 1.
C30_DependencyAbortLeavesProgress ==
    \A e \in DOMAIN task :
        DependencyCheckFailed(e) =>
            /\ executions[e].status = "failed"
            /\ executions[e].current_step =
                   IF task[e].idx = 1 THEN NULL
                   ELSE task[e].steps[task[e].idx - 1].step_id
            /\ executions[e].steps_completed = task[e].idx - 1
            /\ executions[e].steps_completed =
                   Cardinality({ r \in RowsOf(e) : step_results[r].status = "completed" })

C30_Witness ==
    \E e \in DOMAIN task :
        /\ DependencyCheckFailed(e)
        /\ task[e].idx = 2
        /\ Step(e).step_id = "B"
        /\ executions[e].current_step = "A"
        /\ executions[e].steps_completed = 1
        /\ remote_calls[e][1] = 2

====
